---- MODULE Spec2Model ----
(***************************************************************************)
(* The tool-call conversation loop of app/mcp_client.py:                   *)
(* MCPOllamaClient.extract_tool_call (the extractor), call_tool (the       *)
(* dispatcher) and chat_with_tools (the bounded loop).                     *)
(*                                                                         *)
(* A text is a sequence of symbols.  A symbol is one character ("{", "}",  *)
(* ",", and "Q" for a lone double quote) or a chunk of characters that     *)
(* holds no brace:                                                         *)
(*   K_tool_call  "tool_call":     K_name  "name":                         *)
(*   K_arguments  "arguments":     K_timezone  "timezone":                 *)
(*   S_get_time_tool  "get_time_tool"    S_bogus  "bogus"    S_UTC  "UTC"  *)
(*   null   the JSON literal       hi, UTC   the letters, unquoted         *)
(*   0      the number             []        the empty list                *)
(* The code looks at single characters only to compare them with a brace,  *)
(* and slices only at braces, so a chunk is never cut.                     *)
(*                                                                         *)
(* Around the loop: ChatHandler.do_POST of app/chat_server.py, which runs  *)
(* chat_with_tools for a request and writes {"response": ...} (the chunk   *)
(* K_response is "response":), and parse_encoded_storage of app/tools.py,  *)
(* run on its own on lists of column values spelt character by character.  *)
(***************************************************************************)
EXTENDS Integers, Sequences, FiniteSets, TLC

\* ------------------------------------------------------------ JSON values

\* Python's None (also what the JSON literal null loads as).
None == [t |-> "none", s |-> <<>>, m |-> <<>>]

\* A str, as the symbols between its quotes.
Str(content) == [t |-> "str", s |-> content, m |-> <<>>]

\* A dict, as a function from its keys to their values.
Obj(members) == [t |-> "obj", s |-> <<>>, m |-> members]

EmptyDict == Obj(<<>>)

\* The int 0 and the empty list, which the chunks "0" and "[]" load as.
Zero == [t |-> "int", s |-> <<"0">>, m |-> <<>>]

EmptyList == [t |-> "list", s |-> <<>>, m |-> <<>>]

KeyChunks == {"K_tool_call", "K_name", "K_arguments", "K_timezone"}

StrChunks == {"S_get_time_tool", "S_bogus", "S_UTC"}

\* The key a key chunk spells.
KeyName(k) ==
  CASE k = "K_tool_call" -> "tool_call"
    [] k = "K_name"      -> "name"
    [] k = "K_arguments" -> "arguments"
    [] k = "K_timezone"  -> "timezone"

\* The characters a string chunk holds between its quotes.
StrContent(c) ==
  CASE c = "S_get_time_tool" -> <<"get_time_tool">>
    [] c = "S_bogus"         -> <<"bogus">>
    [] c = "S_UTC"           -> <<"UTC">>

\* Symbols whose first character is a double quote.
StartsWithQuote(c) == c = "Q" \/ c \in KeyChunks \/ c \in StrChunks

\* dict[key] = val: a repeated key keeps its last value.
DictSet(d, key, val) ==
  [k \in (DOMAIN d) \cup {key} |-> IF k = key THEN val ELSE d[k]]

Fail == [ok |-> FALSE, v |-> None, next |-> 0]

\* The first index >= i of a symbol that starts with a quote, 0 when none.
RECURSIVE NextQuote(_, _)
NextQuote(s, i) ==
  IF i > Len(s) THEN 0
  ELSE IF StartsWithQuote(s[i]) THEN i
  ELSE NextQuote(s, i + 1)

\* json.loads, the scanner of a value at s[i]: ok, the value, the index after.
RECURSIVE ParseValue(_, _)
RECURSIVE ParseMembers(_, _, _)
ParseValue(s, i) ==
  IF i > Len(s) THEN Fail
  ELSE IF s[i] = "{" THEN
    IF i + 1 <= Len(s) /\ s[i + 1] = "}"
    THEN [ok |-> TRUE, v |-> EmptyDict, next |-> i + 2]
    ELSE ParseMembers(s, i + 1, <<>>)
  ELSE IF s[i] \in StrChunks THEN
    [ok |-> TRUE, v |-> Str(StrContent(s[i])), next |-> i + 1]
  ELSE IF s[i] = "null" THEN [ok |-> TRUE, v |-> None, next |-> i + 1]
  ELSE IF s[i] = "0" THEN [ok |-> TRUE, v |-> Zero, next |-> i + 1]
  ELSE IF s[i] = "[]" THEN [ok |-> TRUE, v |-> EmptyList, next |-> i + 1]
  ELSE IF s[i] = "Q" THEN
    \* A string runs to the next double quote.  When that quote opens a
    \* chunk, the rest of the chunk follows the string at once, which no
    \* JSON text allows.
    LET j == NextQuote(s, i + 1) IN
      IF j = 0 \/ s[j] # "Q" THEN Fail
      ELSE [ok |-> TRUE, v |-> Str(SubSeq(s, i + 1, j - 1)), next |-> j + 1]
  ELSE Fail

\* The members of an object from s[i] on, after "{" or ",": a key is expected.
ParseMembers(s, i, acc) ==
  IF i > Len(s) \/ s[i] \notin KeyChunks THEN Fail
  ELSE
    LET r == ParseValue(s, i + 1) IN
      IF ~r.ok THEN Fail
      ELSE
        LET d == DictSet(acc, KeyName(s[i]), r.v) IN
          IF r.next > Len(s) THEN Fail
          ELSE IF s[r.next] = "," THEN ParseMembers(s, r.next + 1, d)
          ELSE IF s[r.next] = "}" THEN
            [ok |-> TRUE, v |-> Obj(d), next |-> r.next + 1]
          ELSE Fail

\* json.loads(s): the value, or a JSONDecodeError (ok = FALSE), also for
\* data after the value.
JsonLoads(s) ==
  LET r == ParseValue(s, 1) IN
    IF r.ok /\ r.next = Len(s) + 1 THEN r ELSE Fail

\* A slip that takes every value but None for true: is not None.
TruthyNotNone(v) == v.t # "none"

\* Python truth of a value: None, "", {}, 0 and [] are false.
Truthy(v) ==
  \/ v.t = "str" /\ v.s # <<>>
  \/ v.t = "obj" /\ DOMAIN v.m # {}

\* ---------------------------------------------------------- the extractor

\* text[i:] starts with the marker {"tool_call":
MarkerAt(text, i) ==
  i + 1 <= Len(text) /\ text[i] = "{" /\ text[i + 1] = "K_tool_call"

\* '{"tool_call":' in text
HasMarker(text) == \E i \in 1..Len(text) : MarkerAt(text, i)

\* A slip that takes the last marker: text.rfind('{"tool_call":')
FindLastMarker(text) ==
  IF HasMarker(text)
  THEN CHOOSE i \in 1..Len(text) :
         MarkerAt(text, i) /\ \A j \in (i + 1)..Len(text) : ~MarkerAt(text, j)
  ELSE 0

\* text.find('{"tool_call":'), 1-based; 0 when absent
FindMarker(text) ==
  IF HasMarker(text)
  THEN CHOOSE i \in 1..Len(text) :
         MarkerAt(text, i) /\ \A j \in 1..(i - 1) : ~MarkerAt(text, j)
  ELSE 0

\* text.find('}', start), 1-based; 0 when absent
RECURSIVE FindClose(_, _)
FindClose(text, i) ==
  IF i > Len(text) THEN 0
  ELSE IF text[i] = "}" THEN i
  ELSE FindClose(text, i + 1)

\* The brace-counting loop from index i with brace_count = count: the index
\* where the count returns to zero, 0 when the text ends first.
RECURSIVE MatchClose(_, _, _)
MatchClose(text, i, count) ==
  IF i > Len(text) THEN 0
  ELSE IF text[i] = "{" THEN MatchClose(text, i + 1, count + 1)
  ELSE IF text[i] = "}" THEN
    IF count - 1 = 0 THEN i ELSE MatchClose(text, i + 1, count - 1)
  ELSE MatchClose(text, i + 1, count)

\* MCPOllamaClient.extract_tool_call
extract_tool_call(text) ==
  IF ~HasMarker(text) THEN None
  ELSE
    LET start == FindMarker(text)
        first == FindClose(text, start)
    IN
      IF first = 0 THEN None
      ELSE
        LET matched == MatchClose(text, start, 0)
            end     == IF matched # 0 THEN matched ELSE first
            parsed  == JsonLoads(SubSeq(text, start, end))
        IN
          IF ~parsed.ok THEN None
          ELSE parsed.v.m["tool_call"]

\* dict.get(key): the value at the key, None when the key is absent
Get(d, key) == IF key \in DOMAIN d.m THEN d.m[key] ELSE None

\* extract_tool_call of examples/simple_function_calling.py: end starts at
\* start and is moved only where the brace count returns to zero.
example_extract_tool_call(text) ==
  IF ~HasMarker(text) THEN None
  ELSE
    LET start == FindMarker(text) IN
      IF start = 0 THEN None
      ELSE
        LET matched == MatchClose(text, start, 0)
            end     == IF matched # 0 THEN matched ELSE start
            parsed  == JsonLoads(SubSeq(text, start, end))
        IN
          IF ~parsed.ok THEN None
          ELSE Get(parsed.v, "tool_call")

\* ------------------------------------------------------------- the state

VARIABLES
  MAX_LOOPS,        \* config.MAX_LOOPS, the round budget
  available_tools,  \* self.available_tools, the names in dict order
  pc,               \* where the invocation stands
  history,          \* chat_with_tools' local list of messages
  attempt,          \* iterations of the for loop completed
  assistant_msg,    \* the last reply of the completion client
  tool_call,        \* the call extracted from it, while it is dispatched
  outcome,          \* how chat_with_tools returned
  result,           \* the string it returned
  modelCalls,       \* calls of ollama_client.chat so far
  dispatches,       \* calls of call_tool so far
  text,             \* the extractor's input, when it is run on its own
  extracted,        \* and what it returned
  sent,             \* messages= of the last ollama_client.chat call
  caught,           \* the exception the loop's except Exception caught
  dispatched,       \* the last call_tool: its name, the transport, its return
  http,             \* the request do_POST handles and what it has sent
  encoded_columns,  \* parse_encoded_storage's input, run on its own
  chat_arg,         \* the user_message chat_with_tools was called with
  storage_request,  \* load_storage_data's arguments and the files there are
  loaded,           \* and what it returned
  calls,            \* the locals of the invocations that run concurrently
  example_extracted,\* what the example's extractor returned for text
  parsed            \* and what it returned

vars == <<MAX_LOOPS, available_tools, pc, history, attempt, assistant_msg,
          tool_call, outcome, result, modelCalls, dispatches, text, extracted,
          sent, caught, dispatched, http, encoded_columns, chat_arg,
          storage_request, loaded, calls, example_extracted, parsed>>

\* The largest round budget the model configures.
MaxLoops == 3

\* The model stops counting completion-client calls here; the loop itself
\* stays below it (C1_RoundBudget).
CallCap == MaxLoops + 2

\* The tools app/main.py registers, as far as the model names them.
RegisteredTools == <<"get_time_tool">>

UserMessages == {<<"What time is it in Tokyo?">>, <<"Hello">>}

ExhaustedMessage ==
  <<"Sorry, I couldn't complete that request after several attempts.">>

NoToolsMessage == <<"Error: No tools available">>

Message(role, content) == [role |-> role, content |-> content]

\* create_system_prompt: the lead, one line per tool, the format rules.
create_system_prompt(tools) ==
  <<"You have access to these tools:">>
    \o [i \in 1..Len(tools) |-> tools[i]]
    \o <<"When you need to use a tool, respond with a JSON object">>

\* ------------------------------------------------------- the model's replies

\* {"tool_call":{"name":<name>,"arguments":<args>}}
CallText(name, args) ==
  <<"{", "K_tool_call", "{", "K_name", name, ",", "K_arguments">>
    \o args \o <<"}", "}">>

NoArgs == <<"{", "}">>

TimezoneArgs(v) == <<"{", "K_timezone">> \o v \o <<"}">>

\* What the completion client answers in the loop.
Replies ==
  { <<"hi">>,
    <<>>,
    CallText("S_get_time_tool", TimezoneArgs(<<"S_UTC">>)),
    CallText("S_bogus", NoArgs),
    <<"{", "K_tool_call", "{", "K_arguments", "{", "}", "}", "}">>,
    <<"{", "K_tool_call", "{", "K_name", "S_get_time_tool", "}", "}">>,
    <<"{", "K_tool_call", "{", "}", "}">>,
    <<"{", "K_tool_call", "null", "}">>,
    <<"{", "K_tool_call", "0", "}">>,
    <<"{", "K_tool_call", "Q", "Q", "}">>,
    <<"{", "K_tool_call", "[]", "}">>,
    <<"{", "K_tool_call", "Q", "{", "Q", "}">>,
    CallText("S_get_time_tool", TimezoneArgs(<<"Q", "}", "Q">>)),
    <<"{", "K_tool_call", "{", "K_name", "S_get_time_tool">> }

\* The exceptions ollama_client.chat raises, by their text.
ChatErrors == {<<"Failed to connect to Ollama">>}

\* ------------------------------------------------------------ the dispatcher

Registered(name) ==
  \E i \in 1..Len(RegisteredTools) : name = Str(<<RegisteredTools[i]>>)

\* What session.call_tool can do: return a result whose content is a list of
\* text items (flagged isError or not), or raise.
Returned(items, isError) ==
  [kind |-> "content", content |-> items, isError |-> isError, msg |-> <<>>]

Raised(msg) ==
  [kind |-> "raise", content |-> <<>>, isError |-> FALSE, msg |-> msg]

TransportOutcomes(name) ==
  IF Registered(name)
  THEN { Returned(<<<<"12:00 UTC">>>>, FALSE),
         Returned(<<>>, FALSE),
         Returned(<<<<"Error executing tool">>>>, TRUE),
         Raised(<<"Connection closed">>),
         Raised(<<>>) }
  ELSE { Returned(<<<<"Unknown tool">>>>, TRUE),
         Raised(<<"Unknown tool">>) }

\* MCPOllamaClient.call_tool, given what the transport does.
call_tool(o) ==
  IF o.kind = "raise"
  THEN [success |-> FALSE, result |-> <<>>, error |-> o.msg]
  ELSE [success |-> TRUE,
        result  |-> IF o.content # <<>> THEN o.content[1] ELSE <<>>,
        error   |-> <<>>]

\* A slip that folds a failure like a payload, without "Error: ".
ToolResultMessageUnmarked(tool_result) ==
  Message("user",
          <<"Tool result: ">> \o
            (IF tool_result.success THEN tool_result.result
             ELSE tool_result.error))

\* The user message the loop folds a tool result into.
ToolResultMessage(tool_result) ==
  Message("user",
          <<"Tool result: ">> \o
            (IF tool_result.success THEN tool_result.result
             ELSE <<"Error: ">> \o tool_result.error))

\* ------------------------------------------------------------------ the loop

\* A slip that folds the tool result without the assistant's reply.
FoldResultOnly(h, reply, tool_result) ==
  h \o << ToolResultMessage(tool_result) >>

\* A slip that appends the reply when it arrives and again with the result.
FoldReplyTwice(h, reply, tool_result) ==
  h \o << Message("assistant", reply), Message("assistant", reply),
          ToolResultMessage(tool_result) >>

\* A slip that drops the oldest message to make room for the new ones.
FoldSliding(h, reply, tool_result) ==
  Tail(h) \o << Message("assistant", reply), ToolResultMessage(tool_result) >>

\* history.extend([assistant reply, tool result])
Fold(h, reply, tool_result) ==
  h \o << Message("assistant", reply), ToolResultMessage(tool_result) >>

\* A slip that takes only None for "no call": if tool_call is None
NoCallOnlyNone(tc) == tc = None

\* if not tool_call
NoCall(tc) == ~Truthy(tc)

\* A slip that leaves the guard on available_tools out.
NoToolsUnchecked(tools) == FALSE

\* if not self.available_tools
NoTools(tools) == tools = <<>>

\* A slip that returns str(e) alone.
ErrorTextBare(msg) == msg

\* f"Error: {str(e)}"
ErrorText(msg) == <<"Error: ">> \o msg

\* A slip that lets the loop run twice the budget.
LoopContinuesTwiceAsLong(n) == n < 2 * MAX_LOOPS

\* An off-by-one slip in the loop bound.
LoopContinuesOnceMore(n) == n <= MAX_LOOPS

\* A loop without a bound.
LoopContinuesForever(n) == TRUE

\* for attempt in range(MAX_LOOPS): the body runs once more after n rounds.
LoopContinues(n) == n < MAX_LOOPS

\* The exception tool_call["name"] and tool_call["arguments"] raise on the
\* extracted value, by its text; raised = FALSE when both are there.
Subscript(tc) ==
  IF tc.t = "str"
  THEN [raised |-> TRUE, msg |-> <<"string indices must be integers">>]
  ELSE IF tc.t = "int"
  THEN [raised |-> TRUE, msg |-> <<"'int' object is not subscriptable">>]
  ELSE IF tc.t = "list"
  THEN [raised |-> TRUE, msg |-> <<"list indices must be integers">>]
  ELSE IF tc.t = "none"
  THEN [raised |-> TRUE, msg |-> <<"'NoneType' object is not subscriptable">>]
  ELSE IF "name" \notin DOMAIN tc.m
  THEN [raised |-> TRUE, msg |-> <<"'name'">>]
  ELSE IF "arguments" \notin DOMAIN tc.m
  THEN [raised |-> TRUE, msg |-> <<"'arguments'">>]
  ELSE [raised |-> FALSE, msg |-> <<>>]

\* return <value>: chat_with_tools ends.
Return(how, value) ==
  /\ pc' = "done"
  /\ outcome' = how
  /\ result' = value

\* The top of the for loop after n rounds: another round, or the loop is
\* over and the exhaustion message is returned.
LoopHead(n) ==
  IF LoopContinues(n)
  THEN pc' = "AwaitingModel" /\ UNCHANGED <<outcome, result>>
  ELSE Return("Exhausted", ExhaustedMessage)

\* A slip that sends the seed alone in every round.
ChatMessagesSeedOnly(h) == SubSeq(h, 1, 2)

\* A slip that sends the system prompt and the latest message alone.
ChatMessagesLatest(h) == <<h[1], h[Len(h)]>>

\* messages=history: the whole history goes to the completion client.
ChatMessages(h) == h

\* What except Exception as e caught in the loop: where it was raised, str(e).
Exception(at, msg) == [at |-> at, msg |-> msg]

NoException == Exception("none", <<>>)

\* Before the first call_tool of an invocation.
NoDispatch ==
  [name        |-> None,
   transport   |-> Returned(<<>>, FALSE),
   tool_result |-> call_tool(Returned(<<>>, FALSE))]

\* No request has reached the handler.
HttpIdle == [state |-> "idle", request |-> <<>>, responses |-> <<>>]

\* parse_encoded_storage has not returned.
NotParsed == [returned |-> FALSE]

\* The variables of what is run on its own beside the loop.
others == <<storage_request, loaded, calls, example_extracted>>

\* load_storage_data has not been called.
NoRequest == [storage_type |-> "", data_dir |-> "", files |-> <<>>]

NotLoaded == [returned |-> FALSE]

\* No invocation runs beside the one of the loop.
NoCalls == <<>>

OthersIdle ==
  /\ storage_request = NoRequest
  /\ loaded = NotLoaded
  /\ calls = NoCalls
  /\ example_extracted = None

Init ==
  /\ MAX_LOOPS \in 1..MaxLoops
  /\ available_tools = <<>>
  /\ pc = "new"
  /\ history = <<>>
  /\ attempt = 0
  /\ assistant_msg = <<>>
  /\ tool_call = None
  /\ outcome = "none"
  /\ result = <<>>
  /\ modelCalls = 0
  /\ dispatches = 0
  /\ text = <<>>
  /\ extracted = None
  /\ sent = <<>>
  /\ caught = NoException
  /\ dispatched = NoDispatch
  /\ http = HttpIdle
  /\ chat_arg = <<>>
  /\ OthersIdle
  /\ encoded_columns = <<>>
  /\ parsed = NotParsed

\* create_mcp_client: connect() stores what get_tools_info returns, the
\* tools of the server or {} when discovery raised.
Connect(discovered) ==
  /\ pc = "new"
  /\ available_tools' = (IF discovered THEN RegisteredTools ELSE <<>>)
  /\ pc' = "connected"
  /\ UNCHANGED <<MAX_LOOPS, history, attempt, assistant_msg, tool_call,
                 outcome, result, modelCalls, dispatches, text, extracted,
                 sent, caught, dispatched, http, encoded_columns, others, chat_arg, parsed>>

\* chat_with_tools up to the loop: the guard on available_tools, the seed.
BeginChat(user_message) ==
  /\ pc = "connected"
  /\ chat_arg' = user_message
  /\ IF NoTools(available_tools)
     THEN /\ Return("Error", NoToolsMessage)
          /\ UNCHANGED history
     ELSE /\ history' =
               << Message("system", create_system_prompt(available_tools)),
                  Message("user", user_message) >>
          /\ LoopHead(0)
  /\ UNCHANGED <<MAX_LOOPS, available_tools, attempt, assistant_msg,
                 tool_call, modelCalls, dispatches, text, extracted,
                 sent, caught, dispatched, encoded_columns, others, parsed>>

\* chat_with_tools called directly, as the tests of the client call it.
Start(user_message) ==
  /\ BeginChat(user_message)
  /\ UNCHANGED http

\* A round up to the dispatch: the completion client answers reply; the
\* extractor runs on it; the loop returns or goes on to call the tool.
ModelReplies(reply) ==
  /\ pc = "AwaitingModel"
  /\ modelCalls < CallCap
  /\ modelCalls' = modelCalls + 1
  /\ sent' = ChatMessages(history)
  /\ assistant_msg' = reply
  /\ LET tc == extract_tool_call(reply) IN
       IF NoCall(tc)
       THEN Return("Answered", reply) /\ UNCHANGED <<tool_call, caught>>
       ELSE IF Subscript(tc).raised
       THEN /\ Return("Error", ErrorText(Subscript(tc).msg))
            /\ caught' = Exception("tool_call", Subscript(tc).msg)
            /\ UNCHANGED tool_call
       ELSE /\ pc' = "Dispatching"
            /\ tool_call' = tc
            /\ UNCHANGED <<outcome, result, caught>>
  /\ UNCHANGED <<MAX_LOOPS, available_tools, history, attempt, dispatches,
                 text, extracted, dispatched, http, encoded_columns, others, chat_arg, parsed>>

\* A round in which ollama_client.chat raises: except Exception returns.
ModelRaises(e) ==
  /\ pc = "AwaitingModel"
  /\ modelCalls < CallCap
  /\ modelCalls' = modelCalls + 1
  /\ sent' = ChatMessages(history)
  /\ caught' = Exception("chat", e)
  /\ Return("Error", ErrorText(e))
  /\ UNCHANGED <<MAX_LOOPS, available_tools, history, attempt, assistant_msg,
                 tool_call, dispatches, text, extracted, dispatched, http,
                 encoded_columns, others, chat_arg, parsed>>

\* A slip that calls call_tool a second time when the first call failed.
CallToolRetried(tool_result) == IF tool_result.success THEN 1 ELSE 2

\* The calls of call_tool in a round that dispatches: the one of line 114,
\* whatever it returns.
CallToolCalls(tool_result) == 1

\* The rest of the round: call_tool returns, the reply and the tool result
\* are appended to history, continue.
Dispatch(o) ==
  /\ pc = "Dispatching"
  /\ o \in TransportOutcomes(tool_call.m["name"])
  /\ dispatches' = dispatches + CallToolCalls(call_tool(o))
  /\ history' = Fold(history, assistant_msg, call_tool(o))
  /\ dispatched' = [name        |-> tool_call.m["name"],
                    transport   |-> o,
                    tool_result |-> call_tool(o)]
  /\ attempt' = attempt + 1
  /\ tool_call' = None
  /\ LoopHead(attempt + 1)
  /\ UNCHANGED <<MAX_LOOPS, available_tools, assistant_msg, modelCalls,
                 text, extracted, sent, caught, http, encoded_columns, others, chat_arg,
                 parsed>>

AllOutcomes ==
  TransportOutcomes(Str(<<"get_time_tool">>))
    \cup TransportOutcomes(Str(<<"bogus">>))

Next ==
  \/ \E d \in BOOLEAN : Connect(d)
  \/ \E u \in UserMessages : Start(u)
  \/ \E r \in Replies : ModelReplies(r)
  \/ \E e \in ChatErrors : ModelRaises(e)
  \/ \E o \in AllOutcomes : Dispatch(o)

Spec == Init /\ [][Next]_vars

\* Every call of the completion client and of the tool transport comes back.
FairSpec == Spec /\ WF_vars(Next)

\* ------------------------------------------------- the extractor on its own

\* The texts the extractor is run on hold at most this many pieces.
MaxPieces == 2

\* What a reply puts under "tool_call": calls of a registered and of an
\* unknown tool, with arguments whose strings hold braces or not, objects
\* without a name or without arguments, values that are no object, and text
\* that is no JSON.
CallValues ==
  { <<"{", "K_name", n, ",", "K_arguments">> \o a \o <<"}">> :
      n \in {"S_get_time_tool", "S_bogus"},
      a \in { NoArgs, TimezoneArgs(<<"S_UTC">>),
              TimezoneArgs(<<"Q", "{", "Q">>),
              TimezoneArgs(<<"Q", "}", "Q">>) } }
  \cup
  { <<"{", "K_arguments", "{", "}", "}">>,
    <<"{", "K_name", "S_get_time_tool", "}">>,
    <<"{", "}">>,
    <<"null">>,
    <<"S_UTC">>,
    <<"Q", "Q">>,
    <<"Q", "{", "Q">>,
    <<"hi">> }

\* A piece of a reply: prose, a brace, or {"tool_call": <value>}
Pieces ==
  {<<"hi">>, <<"{">>, <<"}">>}
    \cup {<<"{", "K_tool_call">> \o v \o <<"}">> : v \in CallValues}

\* The texts of 1..n pieces.
RECURSIVE Concats(_)
Concats(n) ==
  IF n = 1 THEN Pieces
  ELSE Concats(n - 1)
         \cup {t \o q : t \in Concats(n - 1), q \in Pieces}

\* Every text of at most MaxPieces pieces, and every text cut short of one.
Texts ==
  UNION {{SubSeq(t, 1, k) : k \in 0..Len(t)} : t \in Concats(MaxPieces)}

InitExtract ==
  /\ text \in Texts
  /\ extracted = None
  /\ pc = "extract"
  /\ MAX_LOOPS = 1
  /\ available_tools = <<>>
  /\ history = <<>>
  /\ attempt = 0
  /\ assistant_msg = <<>>
  /\ tool_call = None
  /\ outcome = "none"
  /\ result = <<>>
  /\ modelCalls = 0
  /\ dispatches = 0
  /\ sent = <<>>
  /\ caught = NoException
  /\ dispatched = NoDispatch
  /\ http = HttpIdle
  /\ chat_arg = <<>>
  /\ OthersIdle
  /\ encoded_columns = <<>>
  /\ parsed = NotParsed

\* self.extract_tool_call(text)
RunExtractor ==
  /\ pc = "extract"
  /\ extracted' = extract_tool_call(text)
  /\ pc' = "extracted"
  /\ UNCHANGED <<MAX_LOOPS, available_tools, history, attempt, assistant_msg,
                 tool_call, outcome, result, modelCalls, dispatches, text,
                 sent, caught, dispatched, http, encoded_columns, others, chat_arg, parsed>>

NextExtract == RunExtractor

SpecExtract == InitExtract /\ [][NextExtract]_vars

\* extract_tool_call(text) of the example, on the text the client's
\* extractor was run on.
RunExample ==
  /\ pc = "extracted"
  /\ example_extracted' = example_extract_tool_call(text)
  /\ pc' = "compared"
  /\ UNCHANGED <<MAX_LOOPS, available_tools, history, attempt, assistant_msg,
                 tool_call, outcome, result, modelCalls, dispatches, text,
                 extracted, sent, caught, dispatched, http, encoded_columns,
                 storage_request, loaded, calls, chat_arg, parsed>>

NextBoth == RunExtractor \/ RunExample

\* Both extractors, one after the other, on every text of Texts.
SpecBoth == InitExtract /\ [][NextBoth]_vars

\* ------------------------------------------------------- the HTTP handler

\* Every variable but http.
notHttp ==
  <<MAX_LOOPS, available_tools, pc, history, attempt, assistant_msg,
    tool_call, outcome, result, modelCalls, dispatches, text, extracted,
    sent, caught, dispatched, encoded_columns, others, chat_arg, parsed>>

\* A request body: bytes that json.loads rejects, or a JSON object.
NotJson == [json |-> FALSE, data |-> <<>>]

JsonBody(data) == [json |-> TRUE, data |-> data]

\* The bodies a client posts: no JSON, an object without user_message, and
\* objects with an empty and with a non-empty user_message.
Bodies ==
  {NotJson, JsonBody([k \in {"session"} |-> <<"abc">>])}
    \cup {JsonBody([k \in {"user_message"} |-> u]) :
            u \in UserMessages \cup {<<>>}}

Requests == {[path |-> p, body |-> b] : p \in {"/v1/chat", "/v1/tools"},
                                        b \in Bodies}

\* request_data.get('user_message', '')
UserMessageOf(body) ==
  IF "user_message" \in DOMAIN body.data THEN body.data["user_message"]
  ELSE <<>>

\* A slip that writes the string between quotes as it is.
JsonDumpsStringRaw(str) == <<"Q">> \o str \o <<"Q">>

\* json.dumps of a str: between quotes, a backslash before every symbol
\* that holds a quote.
RECURSIVE JsonDumpsString(_)
JsonDumpsString(str) ==
  IF str = <<>> THEN <<"Q", "Q">>
  ELSE LET rest == JsonDumpsString(Tail(str))
           head == IF StartsWithQuote(Head(str))
                   THEN <<"\\", Head(str)>>
                   ELSE <<Head(str)>>
       IN  <<"Q">> \o head \o Tail(rest)

\* json.dumps({"response": response})
ResponseData(response) ==
  <<"{", "K_response">> \o JsonDumpsString(response) \o <<"}">>

\* send_response(200), the header, the body.
ChatResponse(response) == [status |-> 200, body |-> ResponseData(response)]

\* send_error(code, message)
ErrorResponse(code, message) == [status |-> code, body |-> message]

\* The handler has sent its response and returned.
Responded(req, response) ==
  [state |-> "responded", request |-> req, responses |-> <<response>>]

\* do_POST up to the call of chat_with_tools: 404 for another path, 500
\* for a body json.loads rejects, 400 for a missing or empty user_message;
\* otherwise chat_with_tools starts on the message.
Post(req) ==
  /\ pc = "connected"
  /\ http.state = "idle"
  /\ IF req.path # "/v1/chat"
     THEN /\ http' = Responded(req, ErrorResponse(404, <<"Not found">>))
          /\ UNCHANGED notHttp
     ELSE IF ~req.body.json
     THEN /\ http' = Responded(req,
                        ErrorResponse(500, <<"Chat error: ",
                                             "Expecting value">>))
          /\ UNCHANGED notHttp
     ELSE IF UserMessageOf(req.body) = <<>>
     THEN /\ http' = Responded(req,
                        ErrorResponse(400, <<"Missing user_message">>))
          /\ UNCHANGED notHttp
     ELSE /\ BeginChat(UserMessageOf(req.body))
          /\ http' = [state |-> "handling", request |-> req,
                      responses |-> <<>>]

\* The rest of do_POST: chat_with_tools has returned; status 200 and
\* {"response": <what it returned>} are written.
Respond ==
  /\ pc = "done"
  /\ http.state = "handling"
  /\ http' = [http EXCEPT !.state = "responded",
                          !.responses = @ \o <<ChatResponse(result)>>]
  /\ UNCHANGED notHttp

NextHttp ==
  \/ \E d \in BOOLEAN : Connect(d)
  \/ \E req \in Requests : Post(req)
  \/ \E r \in Replies : ModelReplies(r)
  \/ \E e \in ChatErrors : ModelRaises(e)
  \/ \E o \in AllOutcomes : Dispatch(o)
  \/ Respond

SpecHttp == Init /\ [][NextHttp]_vars

\* Every call the handler waits for comes back.
FairSpecHttp == SpecHttp /\ WF_vars(NextHttp)

\* ------------------------------------------- parse_encoded_storage (tools)

\* A column value: a str, as a sequence of characters, or what pandas gives
\* for an empty cell: None, or a float that is no str.
StrEntry(chars) == [kind |-> "str", s |-> chars]

NoneEntry == [kind |-> "None", s |-> <<>>]

FloatEntry == [kind |-> "float", s |-> <<>>]

Digits == <<"0", "1", "2", "3", "4", "5", "6", "7", "8", "9">>

IsDigit(c) == \E i \in 1..Len(Digits) : Digits[i] = c

DigitValue(c) == (CHOOSE i \in 1..Len(Digits) : Digits[i] = c) - 1

\* s.find(c) + 1: the first index of c in s, 0 when there is none.
RECURSIVE FindChar(_, _, _)
FindChar(s, c, i) ==
  IF i > Len(s) THEN 0
  ELSE IF s[i] = c THEN i
  ELSE FindChar(s, c, i + 1)

\* str.strip(): the blanks at both ends go.
RECURSIVE strip(_)
strip(s) ==
  IF s = <<>> THEN s
  ELSE IF Head(s) = " " THEN strip(Tail(s))
  ELSE IF s[Len(s)] = " " THEN strip(SubSeq(s, 1, Len(s) - 1))
  ELSE s

\* The number a sequence of digits spells.
RECURSIVE Decimal(_)
Decimal(d) ==
  IF d = <<>> THEN 0
  ELSE Decimal(SubSeq(d, 1, Len(d) - 1)) * 10 + DigitValue(d[Len(d)])

\* int(s): blanks at the ends are dropped, one sign may lead, digits
\* follow; anything else is a ValueError (ok = FALSE).
int(s) ==
  LET t      == strip(s)
      signed == t # <<>> /\ t[1] \in {"-", "+"}
      digits == IF signed THEN Tail(t) ELSE t
  IN  IF digits = <<>> \/ \E i \in 1..Len(digits) : ~IsDigit(digits[i])
      THEN [ok |-> FALSE, v |-> 0]
      ELSE [ok |-> TRUE,
            v  |-> IF signed /\ t[1] = "-" THEN 0 - Decimal(digits)
                   ELSE Decimal(digits)]

\* col_data.split(';', 1) of a string that holds a ';'.
SplitOnce(s) ==
  LET i == FindChar(s, ";", 1)
  IN  [code |-> SubSeq(s, 1, i - 1), qty |-> SubSeq(s, i + 1, Len(s))]

\* A slip that keeps the quantity a code already has.
StoreProductKeepFirst(products, code, qty) ==
  IF code \in DOMAIN products THEN products
  ELSE [k \in (DOMAIN products) \cup {code} |->
          IF k = code THEN qty ELSE products[k]]

\* products[code] = qty
StoreProduct(products, code, qty) ==
  [k \in (DOMAIN products) \cup {code} |->
     IF k = code THEN qty ELSE products[k]]

\* The for loop over encoded_columns from index i on.
RECURSIVE ParseColumns(_, _, _)
ParseColumns(cols, i, products) ==
  IF i > Len(cols) THEN products
  ELSE LET col_data == cols[i]
           parts    == SplitOnce(col_data.s)
       IN  IF /\ col_data.kind = "str"
              /\ col_data.s # <<>>
              /\ FindChar(col_data.s, ";", 1) # 0
              /\ int(strip(parts.qty)).ok
           THEN ParseColumns(cols, i + 1,
                  StoreProduct(products, strip(parts.code),
                               int(strip(parts.qty)).v))
           ELSE ParseColumns(cols, i + 1, products)

\* sum(products.values())
RECURSIVE SumValues(_)
SumValues(products) ==
  IF DOMAIN products = {} THEN 0
  ELSE LET k == CHOOSE c \in DOMAIN products : TRUE
       IN  products[k]
             + SumValues([c \in (DOMAIN products) \ {k} |-> products[c]])

parse_encoded_storage(location, cols) ==
  LET products == ParseColumns(cols, 1, <<>>)
  IN  [location       |-> location,
       products       |-> products,
       total_products |-> Cardinality(DOMAIN products),
       total_quantity |-> SumValues(products)]

\* The lists parse_encoded_storage is run on hold at most this many columns.
MaxColumns == 2

Locations == {"A-01-01", "B-02-03"}

\* The codes and the quantities of the entries that hold a separator:
\* codes with and without blanks around them and the empty code;
\* quantities that are integers, signed or with blanks, and that are not.
EntryCodes == {<<"A">>, <<"B">>, <<" ", "A", " ">>, <<>>}

EntryQuantities ==
  {<<"5">>, <<"1", "0">>, <<" ", "7", " ">>, <<"-", "3">>,
   <<"a", "b", "c">>, <<>>, <<"1", ";", "2">>}

\* The values of a column: "code;quantity" strings, strings without a
\* separator, the empty string, None and a float.
Entries ==
  {StrEntry(c \o <<";">> \o q) : c \in EntryCodes, q \in EntryQuantities}
    \cup {StrEntry(<<>>), StrEntry(<<"A", "5">>), NoneEntry, FloatEntry}

\* The lists of at most n column values.
RECURSIVE ColumnLists(_)
ColumnLists(n) ==
  IF n = 0 THEN {<<>>}
  ELSE ColumnLists(n - 1)
         \cup {Append(l, e) : l \in ColumnLists(n - 1), e \in Entries}

InitParse ==
  /\ encoded_columns \in ColumnLists(MaxColumns)
  /\ parsed = NotParsed
  /\ pc = "parse"
  /\ MAX_LOOPS = 1
  /\ available_tools = <<>>
  /\ history = <<>>
  /\ attempt = 0
  /\ assistant_msg = <<>>
  /\ tool_call = None
  /\ outcome = "none"
  /\ result = <<>>
  /\ modelCalls = 0
  /\ dispatches = 0
  /\ text = <<>>
  /\ extracted = None
  /\ sent = <<>>
  /\ caught = NoException
  /\ dispatched = NoDispatch
  /\ http = HttpIdle
  /\ chat_arg = <<>>
  /\ OthersIdle

\* parse_encoded_storage(location, encoded_columns)
RunParse(location) ==
  /\ pc = "parse"
  /\ parsed' = [returned |-> TRUE,
                location |-> location,
                value    |-> parse_encoded_storage(location, encoded_columns)]
  /\ pc' = "parsed"
  /\ UNCHANGED <<MAX_LOOPS, available_tools, history, attempt, assistant_msg,
                 tool_call, outcome, result, modelCalls, dispatches, text,
                 extracted, sent, caught, dispatched, http, encoded_columns, others, chat_arg>>

NextParse == \E location \in Locations : RunParse(location)

SpecParse == InitParse /\ [][NextParse]_vars

\* ------------------------------------------------ load_storage_data (tools)

\* file_mapping: the file of each storage type.
file_mapping ==
  [t \in {"class_based", "dedicated", "hybrid", "random"} |->
     CASE t = "class_based" -> "Class_Based_Storage.csv"
       [] t = "dedicated"   -> "Dedicated_Storage.csv"
       [] t = "hybrid"      -> "Hybrid_Storage.csv"
       [] t = "random"      -> "Random_Storage.csv"]

\* The storage types a caller passes: the four of file_mapping, and strings
\* that are none of them.
StorageTypes ==
  (DOMAIN file_mapping) \cup {"invalid_type", "Class_Based", ""}

\* "data" is where the files are, "empty_dir" a directory without them.
DataDirs == {"data", "empty_dir"}

\* What is at a path under "data": nothing, a CSV file with rows, a CSV
\* file with a header alone, or a file pd.read_csv raises on.
FileStates == {"absent", "rows", "header", "garbage"}

\* os.path.join(data_dir, name)
PathJoin(data_dir, name) == <<data_dir, "/", name>>

\* What is at a path, given the files under "data".
FileAt(files, path) ==
  IF path[1] = "data" THEN files[path[3]] ELSE "absent"

\* os.path.exists(file_path)
PathExists(files, path) == FileAt(files, path) # "absent"

\* The rows pd.read_csv gives for a file it reads.
RowsOf(state) ==
  IF state = "rows" THEN <<"row1", "row2", "row3", "row4">> ELSE <<>>

\* df.head(3)
HeadThree(rows) ==
  SubSeq(rows, 1, IF Len(rows) < 3 THEN Len(rows) ELSE 3)

\* return {"error": ...}: the value and the paths touched on the way.
ErrorValue(msg, accessed) ==
  [kind |-> "error", error |-> msg, records |-> 0, sample_data |-> <<>>,
   accessed |-> accessed]

\* An exception on its way out of the try block.
Raising(msg, accessed) ==
  [kind |-> "raise", error |-> msg, records |-> 0, sample_data |-> <<>>,
   accessed |-> accessed]

\* The try block of load_storage_data.
TryLoad(req) ==
  IF req.storage_type \notin DOMAIN file_mapping
  THEN ErrorValue(<<"Invalid storage type", ". Must be one of: ",
                    "class_based", "dedicated", "hybrid", "random">>, <<>>)
  ELSE LET file_path == PathJoin(req.data_dir,
                                 file_mapping[req.storage_type])
           state     == FileAt(req.files, file_path)
       IN  IF ~PathExists(req.files, file_path)
           THEN ErrorValue(<<"File not found", ": ">> \o file_path,
                           <<file_path>>)
           ELSE IF state = "garbage"
           THEN Raising(<<"No columns to parse from file">>,
                        <<file_path, file_path>>)
           ELSE [kind        |-> "loaded",
                 error       |-> <<>>,
                 records     |-> Len(RowsOf(state)),
                 sample_data |-> HeadThree(RowsOf(state)),
                 accessed    |-> <<file_path, file_path>>]

\* A slip that catches nothing.
CatchNothing(storage_type, r) == r

\* except Exception as e: return {"error": ...}
CatchException(storage_type, r) ==
  IF r.kind = "raise"
  THEN ErrorValue(<<"Failed to load ", storage_type, " storage data: ">>
                    \o r.error, r.accessed)
  ELSE r

load_storage_data(req) == CatchException(req.storage_type, TryLoad(req))

\* The calls of load_storage_data: a storage type, a directory, and what
\* is at each of the four paths under "data".
StorageRequests ==
  {[storage_type |-> t, data_dir |-> d, files |-> f] :
     t \in StorageTypes, d \in DataDirs,
     f \in [{file_mapping[k] : k \in DOMAIN file_mapping} -> FileStates]}

InitLoad ==
  /\ storage_request \in StorageRequests
  /\ loaded = NotLoaded
  /\ pc = "load"
  /\ MAX_LOOPS = 1
  /\ available_tools = <<>>
  /\ history = <<>>
  /\ attempt = 0
  /\ assistant_msg = <<>>
  /\ tool_call = None
  /\ outcome = "none"
  /\ result = <<>>
  /\ modelCalls = 0
  /\ dispatches = 0
  /\ text = <<>>
  /\ extracted = None
  /\ sent = <<>>
  /\ caught = NoException
  /\ dispatched = NoDispatch
  /\ http = HttpIdle
  /\ chat_arg = <<>>
  /\ encoded_columns = <<>>
  /\ parsed = NotParsed
  /\ calls = NoCalls
  /\ example_extracted = None

\* load_storage_data(storage_type, data_dir)
RunLoad ==
  /\ pc = "load"
  /\ loaded' = [returned |-> TRUE, value |-> load_storage_data(storage_request)]
  /\ pc' = "loaded"
  /\ UNCHANGED <<MAX_LOOPS, available_tools, history, attempt, assistant_msg,
                 tool_call, outcome, result, modelCalls, dispatches, text,
                 extracted, sent, caught, dispatched, http, chat_arg,
                 encoded_columns, parsed, storage_request, calls,
                 example_extracted>>

NextLoad == RunLoad

SpecLoad == InitLoad /\ [][NextLoad]_vars

\* ---------------------------------- two invocations on one shared client

\* The invocations that run on the client at a time, as asyncio tasks that
\* take turns at every await.
Invocations == {1, 2}

\* The budget of the invocations that run side by side is at most this.
MaxSharedLoops == 2

\* What each invocation is asked, what the completion client answers it
\* and what the transport does for its calls: no text is common to the two.
UserMessageOfCall(i) ==
  IF i = 1 THEN <<"What time is it in Tokyo?">> ELSE <<"Hello">>

RepliesOfCall(i) ==
  IF i = 1
  THEN {<<"hi">>, CallText("S_get_time_tool", TimezoneArgs(<<"S_UTC">>))}
  ELSE {<<"UTC">>, CallText("S_bogus", NoArgs)}

OutcomesOfCall(i) ==
  IF i = 1
  THEN {Returned(<<<<"12:00 UTC">>>>, FALSE), Raised(<<"Connection closed">>)}
  ELSE TransportOutcomes(Str(<<"bogus">>))

\* The locals of chat_with_tools before its first statement.
NewFrame ==
  [pc |-> "called", history |-> <<>>, attempt |-> 0, assistant_msg |-> <<>>,
   tool_call |-> None, outcome |-> "none", result |-> <<>>]

\* A slip that keeps the history on the client: self.history.
HistoryOnClient(i) == 1

\* history is a local of chat_with_tools: every invocation has its own.
HistoryOf(i) == i

\* return <value> in a frame.
FrameReturn(frame, how, value) ==
  [frame EXCEPT !.pc = "done", !.outcome = how, !.result = value]

\* The top of the for loop after n rounds, in a frame.
FrameLoopHead(frame, n) ==
  IF LoopContinues(n)
  THEN [frame EXCEPT !.pc = "AwaitingModel"]
  ELSE FrameReturn(frame, "Exhausted", ExhaustedMessage)

InitShared ==
  /\ MAX_LOOPS \in 1..MaxSharedLoops
  /\ available_tools = RegisteredTools
  /\ calls = [i \in Invocations |-> NewFrame]
  /\ pc = "shared"
  /\ history = <<>>
  /\ attempt = 0
  /\ assistant_msg = <<>>
  /\ tool_call = None
  /\ outcome = "none"
  /\ result = <<>>
  /\ modelCalls = 0
  /\ dispatches = 0
  /\ text = <<>>
  /\ extracted = None
  /\ sent = <<>>
  /\ caught = NoException
  /\ dispatched = NoDispatch
  /\ http = HttpIdle
  /\ chat_arg = <<>>
  /\ encoded_columns = <<>>
  /\ parsed = NotParsed
  /\ storage_request = NoRequest
  /\ loaded = NotLoaded
  /\ example_extracted = None

\* Every variable but calls.
notCalls ==
  <<MAX_LOOPS, available_tools, pc, history, attempt, assistant_msg,
    tool_call, outcome, result, modelCalls, dispatches, text, extracted,
    sent, caught, dispatched, http, chat_arg, encoded_columns, parsed,
    storage_request, loaded, example_extracted>>

\* Invocation i runs chat_with_tools up to the loop.
SharedStart(i) ==
  /\ calls[i].pc = "called"
  /\ calls' =
       IF NoTools(available_tools)
       THEN [calls EXCEPT ![i] = FrameReturn(@, "Error", NoToolsMessage)]
       ELSE [calls EXCEPT
               ![i] = FrameLoopHead(@, 0),
               ![HistoryOf(i)].history =
                  << Message("system",
                             create_system_prompt(available_tools)),
                     Message("user", UserMessageOfCall(i)) >>]
  /\ UNCHANGED notCalls

\* The completion client answers invocation i.
SharedModelReplies(i, reply) ==
  /\ calls[i].pc = "AwaitingModel"
  /\ LET tc    == extract_tool_call(reply)
         frame == [calls[i] EXCEPT !.assistant_msg = reply]
     IN  calls' =
           [calls EXCEPT ![i] =
              IF NoCall(tc) THEN FrameReturn(frame, "Answered", reply)
              ELSE IF Subscript(tc).raised
              THEN FrameReturn(frame, "Error",
                               ErrorText(Subscript(tc).msg))
              ELSE [frame EXCEPT !.pc = "Dispatching", !.tool_call = tc]]
  /\ UNCHANGED notCalls

\* The completion client fails invocation i.
SharedModelRaises(i, e) ==
  /\ calls[i].pc = "AwaitingModel"
  /\ calls' = [calls EXCEPT ![i] = FrameReturn(@, "Error", ErrorText(e))]
  /\ UNCHANGED notCalls

\* call_tool returns to invocation i, which folds the result and goes on.
SharedDispatch(i, o) ==
  /\ calls[i].pc = "Dispatching"
  /\ LET frame == calls[i] IN
       calls' =
         [calls EXCEPT
            ![i] = FrameLoopHead([frame EXCEPT !.attempt = @ + 1,
                                               !.tool_call = None],
                                 frame.attempt + 1),
            ![HistoryOf(i)].history =
               Fold(calls[HistoryOf(i)].history, frame.assistant_msg,
                    call_tool(o))]
  /\ UNCHANGED notCalls

NextShared ==
  \/ \E i \in Invocations : SharedStart(i)
  \/ \E i \in Invocations : \E r \in RepliesOfCall(i) :
       SharedModelReplies(i, r)
  \/ \E i \in Invocations : \E e \in ChatErrors : SharedModelRaises(i, e)
  \/ \E i \in Invocations : \E o \in OutcomesOfCall(i) :
       SharedDispatch(i, o)

SpecShared == InitShared /\ [][NextShared]_vars

\* ------------------------------------------------------------------ claims

\* C1: the completion client is called at most MAX_LOOPS times in an
\* invocation, and an invocation in which each of the MAX_LOOPS rounds
\* dispatched a tool call returns the fixed exhaustion message.
C1_RoundBudget ==
  /\ modelCalls <= MAX_LOOPS
  /\ attempt <= MAX_LOOPS
  /\ (pc = "done" /\ dispatches = MAX_LOOPS
        => outcome = "Exhausted" /\ result = ExhaustedMessage)

C1_Witness ==
  /\ pc = "done"
  /\ MAX_LOOPS > 1
  /\ dispatches = MAX_LOOPS
  /\ modelCalls = MAX_LOOPS
  /\ result = ExhaustedMessage

C3_NoCallAnswers ==
  /\ [](pc = "done" /\ outcome = "Answered"
          => /\ result = assistant_msg
             /\ ~Truthy(extract_tool_call(assistant_msg))
             /\ modelCalls = dispatches + 1)
  /\ [][ /\ \A r \in Replies :
              ModelReplies(r) /\ ~Truthy(extract_tool_call(r))
                => /\ pc' = "done"
                   /\ outcome' = "Answered"
                   /\ result' = r
                   /\ dispatches' = dispatches
                   /\ (modelCalls = 0 /\ ~HasMarker(r) => modelCalls' = 1)
         /\ pc = "done"
              => /\ pc' = "done"
                 /\ modelCalls' = modelCalls
                 /\ dispatches' = dispatches
                 /\ result' = result ]_vars

C3_Witness ==
  /\ pc = "done"
  /\ outcome = "Answered"
  /\ ~HasMarker(assistant_msg)
  /\ modelCalls = 1
  /\ result = <<"hi">>

\* C4: an invocation that makes k tool calls, 0 <= k < MAX_LOOPS, and then
\* gets a reply without a call ends with a history of 2 + 2k messages.
C4_HistoryLength ==
  pc = "done" /\ outcome = "Answered"
    => /\ dispatches < MAX_LOOPS
       /\ Len(history) = 2 + 2 * dispatches

C4_Witness ==
  /\ pc = "done"
  /\ outcome = "Answered"
  /\ dispatches = 2
  /\ Len(history) = 6

\* C5, as stated: history grows by 2 in a round with a tool call and by 1 in
\* the round that ends the loop, so that an invocation answered after k tool
\* calls ends with 3 + 2k messages, 3 when the first reply has no marker.
C5_AsStated ==
  pc = "done" /\ outcome = "Answered"
    => Len(history) = 3 + 2 * dispatches

\* C5, amended: history grows by exactly 2 messages, the assistant's reply
\* and then the tool result, in a round with a tool call, and not at all in
\* the round that ends the loop: the final reply is returned, not appended,
\* and an invocation whose first reply has no marker ends with 2 messages.
C5_HistoryGrowth ==
  /\ [][ /\ dispatches' = dispatches + 1
              => /\ Len(history') = Len(history) + 2
                 /\ SubSeq(history', 1, Len(history)) = history
                 /\ history'[Len(history) + 1] =
                      Message("assistant", assistant_msg)
                 /\ history'[Len(history) + 2].role = "user"
         /\ pc = "AwaitingModel" /\ pc' = "done" => history' = history ]_vars
  /\ [](pc = "done" /\ outcome = "Answered" /\ dispatches = 0
          => Len(history) = 2)

C5_Witness ==
  /\ pc = "done"
  /\ outcome = "Answered"
  /\ dispatches = 0
  /\ ~HasMarker(assistant_msg)
  /\ Len(history) = 2

\* C6, as stated: with a budget of 2 rounds and a call in every reply, the
\* exhaustion message is returned with a history of 5 messages.
C6_AsStated ==
  MAX_LOOPS = 2 /\ pc = "done" /\ dispatches = 2
    => result = ExhaustedMessage /\ Len(history) = 5

\* C6, amended: with a budget of 2 rounds and a call in every reply, the
\* exhaustion message is returned after round 2 with a history of 6
\* messages: the seed and 2 for each round.
C6_BudgetOfTwo ==
  MAX_LOOPS = 2 /\ pc = "done" /\ dispatches = 2
    => /\ outcome = "Exhausted"
       /\ result = ExhaustedMessage
       /\ modelCalls = 2
       /\ Len(history) = 6

C6_Witness ==
  /\ MAX_LOOPS = 2
  /\ pc = "done"
  /\ outcome = "Exhausted"
  /\ Len(history) = 6

\* ---------------------------------------------- claims about the extractor

\* The index of the first marker of a text that has one.
FirstMarkerIndex(t) ==
  CHOOSE i \in 1..Len(t) :
    MarkerAt(t, i) /\ \A j \in 1..(i - 1) : ~MarkerAt(t, j)

\* The markers of a text.
MarkerCount(t) == Cardinality({i \in 1..Len(t) : MarkerAt(t, i)})

\* Where a JSON object that starts at index p ends: at most one index.
ObjectEnds(t, p) == {e \in p..Len(t) : JsonLoads(SubSeq(t, p, e)).ok}

\* The values under "tool_call" of the JSON object at the first marker.
ValuesAtFirstMarker(t) ==
  IF ~HasMarker(t) THEN {}
  ELSE {JsonLoads(SubSeq(t, FirstMarkerIndex(t), e)).v.m["tool_call"] :
          e \in ObjectEnds(t, FirstMarkerIndex(t))}

\* The first marker opens a well-formed call: a JSON object whose
\* "tool_call" is an object with a name.
WellFormedCalls(t) ==
  {v \in ValuesAtFirstMarker(t) : v.t = "obj" /\ "name" \in DOMAIN v.m}

\* The first marker opens a JSON object whose "tool_call" is an object
\* without a name.
NamelessCalls(t) ==
  {v \in ValuesAtFirstMarker(t) : v.t = "obj" /\ "name" \notin DOMAIN v.m}

\* C7, as stated: from a text with a well-formed call at the marker the
\* extractor returns that call, its name and its arguments, also when a
\* string among the arguments holds a brace; from a text without the marker
\* it returns None.
C7_AsStated ==
  pc = "extracted"
    => /\ \A v \in WellFormedCalls(text) : extracted = v
       /\ (~HasMarker(text) => extracted = None)

\* C8, as stated: when the brace count started at the marker never returns
\* to zero, the extractor returns None, also when a "}" follows the marker.
C8_AsStated ==
  pc = "extracted" /\ HasMarker(text)
    /\ MatchClose(text, FirstMarkerIndex(text), 0) = 0
    => extracted = None

\* C9, as stated: a reply with a parsable call object without a name is
\* treated as a reply without a call: nothing is dispatched and the reply's
\* text is returned.
C9_AsStated ==
  pc \in {"done", "Dispatching"} /\ NamelessCalls(assistant_msg) # {}
    => /\ pc = "done"
       /\ outcome = "Answered"
       /\ result = assistant_msg
       /\ dispatches = attempt

\* C10: of several markers the extractor considers the first alone: what it
\* returns, when not None, is the "tool_call" value of a JSON object that
\* starts at the first marker, and when no JSON object starts there it
\* returns None, however well-formed a later call is.
C10_FirstMarkerOnly ==
  pc = "extracted" /\ MarkerCount(text) >= 2
    => /\ extracted # None => extracted \in ValuesAtFirstMarker(text)
       /\ ValuesAtFirstMarker(text) = {} => extracted = None

\* A malformed first call before a well-formed one: None is returned.
C10_Witness ==
  /\ pc = "extracted"
  /\ MarkerCount(text) = 2
  /\ ValuesAtFirstMarker(text) = {}
  /\ \E i \in 2..Len(text) :
       WellFormedCalls(SubSeq(text, i, Len(text))) # {}
  /\ extracted = None

\* --------------------------------------- claims about what the loop returns

\* chat_with_tools came back with a return statement: every end of an
\* invocation is one, since except Exception leaves nothing to propagate.
ReturnedNormally == pc = "done" /\ outcome # "none"

\* C11, as stated: every value chat_with_tools returns is the text of a
\* reply of the model or the fixed exhaustion message, never another
\* string such as an error text made up by the loop.
C11_AsStated ==
  ReturnedNormally
    => \/ modelCalls > 0 /\ result = assistant_msg
       \/ result = ExhaustedMessage

\* C12, as stated: when a call of the completion client fails, the failure
\* leaves chat_with_tools as an error: the invocation does not end with a
\* returned string.
C12_AsStated ==
  caught.at = "chat" => ~ReturnedNormally

\* ------------------------------------------------ claims about the dispatch

\* The transport reported a failure: it raised, or the result it returned
\* is flagged isError.
TransportFailed(o) == o.kind = "raise" \/ o.isError

\* The text names the tool as unknown.
SaysUnknownTool(msg) == \E i \in 1..Len(msg) : msg[i] = "Unknown tool"

\* C13, as stated: call_tool with a name that is not registered returns a
\* failure (success = False) whose error text says the tool is unknown,
\* whether the transport raised or returned a result flagged as an error.
C13_AsStated ==
  dispatches > 0 /\ ~Registered(dispatched.name)
    => /\ ~dispatched.tool_result.success
       /\ SaysUnknownTool(dispatched.tool_result.error)

\* C14, as stated: call_tool of a registered tool whose execution fails
\* returns a failure with a non-empty error description, whatever was
\* raised, an exception with an empty message included.
C14_AsStated ==
  dispatches > 0 /\ Registered(dispatched.name)
    /\ TransportFailed(dispatched.transport)
    => /\ ~dispatched.tool_result.success
       /\ dispatched.tool_result.error # <<>>

\* C15: after every dispatch the message appended directly after the
\* assistant's call message has role user, and its content is
\* "Tool result: " and the payload when call_tool returned a success,
\* "Tool result: Error: " and the description when it returned a failure.
C15_FoldedResult ==
  dispatches > 0
    => /\ Len(history) = 2 + 2 * dispatches
       /\ history[Len(history) - 1].role = "assistant"
       /\ Truthy(extract_tool_call(history[Len(history) - 1].content))
       /\ history[Len(history)].role = "user"
       /\ history[Len(history)].content =
            (IF dispatched.tool_result.success
             THEN <<"Tool result: ">> \o dispatched.tool_result.result
             ELSE <<"Tool result: ", "Error: ">>
                    \o dispatched.tool_result.error)

\* A success and then a failure, each folded in its form.
C15_Witness ==
  /\ dispatches = 2
  /\ history[4].content = <<"Tool result: ", "12:00 UTC">>
  /\ ~dispatched.tool_result.success
  /\ history[6].content = <<"Tool result: ", "Error: ", "Connection closed">>

\* What the transport said went wrong: str(e) of what it raised, or the
\* text of the result it flagged as an error.
FailureText(o) ==
  IF o.kind = "raise" THEN o.msg
  ELSE IF o.content # <<>> THEN o.content[1] ELSE <<>>

\* The message is a tool result that ends with the text.
CarriesFailure(msg, failure) ==
  /\ msg.role = "user"
  /\ msg.content[1] = "Tool result: "
  /\ Len(msg.content) > Len(failure)
  /\ SubSeq(msg.content, Len(msg.content) - Len(failure) + 1,
            Len(msg.content)) = failure

\* The last dispatch failed and the completion client has not been called
\* since, in a round that is not the last one the budget allows.
FailedBeforeLastRound ==
  /\ dispatches > 0
  /\ TransportFailed(dispatched.transport)
  /\ modelCalls = dispatches
  /\ attempt < MAX_LOOPS

\* The completion client has been called after the last dispatch, a failed
\* one.
CalledAfterFailure ==
  /\ dispatches > 0
  /\ TransportFailed(dispatched.transport)
  /\ modelCalls = dispatches + 1

\* C16: a failed dispatch, of an unknown tool or of a tool that fails, does
\* not end the loop: in a round that is not the last its failure text is
\* folded into history, the invocation goes on, and the completion client
\* is called again with the whole history, that text in its last message.
C16_FailureGoesOn ==
  /\ [](FailedBeforeLastRound
          => /\ pc = "AwaitingModel"
             /\ outcome = "none"
             /\ CarriesFailure(history[Len(history)],
                               FailureText(dispatched.transport)))
  /\ [](CalledAfterFailure
          => /\ sent = history
             /\ CarriesFailure(sent[Len(sent)],
                               FailureText(dispatched.transport)))
  /\ (FailedBeforeLastRound ~> CalledAfterFailure)

\* The call of an unknown tool failed in round 1 and the model was asked
\* again with the failure as the last message.
C16_Witness ==
  /\ CalledAfterFailure
  /\ ~Registered(dispatched.name)
  /\ modelCalls = 2
  /\ Len(sent) = 4
  /\ sent[4].content = <<"Tool result: ", "Error: ", "Unknown tool">>

\* C17, as stated: chat_with_tools returns a string that is not empty, for
\* every user message, whatever the model replies and the tools return.
C17_AsStated ==
  ReturnedNormally => result # <<>>

\* C18, as stated: a client that create_mcp_client has returned has a
\* non-empty available_tools: a discovery that failed does not give a
\* client without tools.
C18_AsStated ==
  pc # "new" => available_tools # <<>>

\* ------------------------------------------- claims about the HTTP handler

\* What a client reads back from a string of a JSON text that starts at
\* index i, after the opening quote: up to the first quote not escaped.
RECURSIVE ReadString(_, _)
ReadString(t, i) ==
  IF i > Len(t) THEN <<>>
  ELSE IF t[i] = "\\" /\ i < Len(t)
  THEN <<t[i + 1]>> \o ReadString(t, i + 2)
  ELSE IF StartsWithQuote(t[i]) THEN <<>>
  ELSE <<t[i]>> \o ReadString(t, i + 1)

\* The "response" field of a body {"response": "<string>"}.
ResponseField(body) == ReadString(body, 4)

\* The request is a POST to /v1/chat with a non-empty user_message.
ChatRequest(req) ==
  /\ req.path = "/v1/chat"
  /\ req.body.json
  /\ UserMessageOf(req.body) # <<>>

\* C19: a POST to /v1/chat whose JSON body has a non-empty user_message is
\* answered with status 200 and a JSON body whose "response" field is the
\* value chat_with_tools returned for that message; a request gets one
\* response, never two, and the request being handled gets its response.
C19_ChatAnswered ==
  /\ [](Len(http.responses) = (IF http.state = "responded" THEN 1 ELSE 0))
  /\ [](http.state = "responded" /\ ChatRequest(http.request)
          => /\ ReturnedNormally
             /\ history # <<>> => history[2].content
                                   = UserMessageOf(http.request.body)
             /\ http.responses[1].status = 200
             /\ SubSeq(http.responses[1].body, 1, 3)
                  = <<"{", "K_response", "Q">>
             /\ ResponseField(http.responses[1].body) = result)
  /\ (http.state = "handling" ~> http.state = "responded")

\* The reply returned holds quotes, and the client reads it back whole.
C19_Witness ==
  /\ http.state = "responded"
  /\ ChatRequest(http.request)
  /\ http.responses[1].status = 200
  /\ dispatches = 1
  /\ outcome = "Answered"
  /\ \E i \in 1..Len(result) : StartsWithQuote(result[i])
  /\ ResponseField(http.responses[1].body) = result

\* --------------------------------------- claims about parse_encoded_storage

\* A text without the blanks at its ends.
Trimmed(s) ==
  LET inked == {i \in 1..Len(s) : s[i] # " "}
  IN  IF inked = {} THEN <<>>
      ELSE SubSeq(s, CHOOSE i \in inked : \A j \in inked : i <= j,
                     CHOOSE i \in inked : \A j \in inked : i >= j)

\* The digits of a text that may start with a sign.
Unsigned(t) ==
  IF t # <<>> /\ t[1] \in {"-", "+"} THEN SubSeq(t, 2, Len(t)) ELSE t

\* The text is an integer: digits, at least one, after at most one sign.
IsIntegerText(t) ==
  /\ Unsigned(t) # <<>>
  /\ \A i \in 1..Len(Unsigned(t)) : IsDigit(Unsigned(t)[i])

RECURSIVE PowerOfTen(_)
PowerOfTen(n) == IF n = 0 THEN 1 ELSE 10 * PowerOfTen(n - 1)

\* The digits from index i on, each at its place value.
RECURSIVE PlaceValues(_, _)
PlaceValues(d, i) ==
  IF i > Len(d) THEN 0
  ELSE DigitValue(d[i]) * PowerOfTen(Len(d) - i) + PlaceValues(d, i + 1)

IntegerValue(t) ==
  IF t[1] = "-" THEN 0 - PlaceValues(Unsigned(t), 1)
  ELSE PlaceValues(Unsigned(t), 1)

\* Where the separator of an entry is: after the code, which holds none.
SeparatorAt(e, k) ==
  /\ e.s[k] = ";"
  /\ \A j \in 1..(k - 1) : e.s[j] # ";"

\* The entry has the form "code;integer".
CodeInteger(e) ==
  /\ e.kind = "str"
  /\ \E k \in 1..Len(e.s) :
       /\ SeparatorAt(e, k)
       /\ IsIntegerText(Trimmed(SubSeq(e.s, k + 1, Len(e.s))))

\* The code and the quantity of such an entry.
CodeOf(e) ==
  LET k == CHOOSE k \in 1..Len(e.s) : SeparatorAt(e, k)
  IN  Trimmed(SubSeq(e.s, 1, k - 1))

QuantityOf(e) ==
  LET k == CHOOSE k \in 1..Len(e.s) : SeparatorAt(e, k)
  IN  IntegerValue(Trimmed(SubSeq(e.s, k + 1, Len(e.s))))

\* The columns whose entries have the form "code;integer", and those of
\* them that no later such column repeats the code of.
FormedColumns ==
  {i \in 1..Len(encoded_columns) : CodeInteger(encoded_columns[i])}

LastFormedColumns ==
  {i \in FormedColumns :
     \A j \in FormedColumns :
       j > i => CodeOf(encoded_columns[j]) # CodeOf(encoded_columns[i])}

\* The quantities of a set of columns, added up.
RECURSIVE QuantitySum(_)
QuantitySum(columns) ==
  IF columns = {} THEN 0
  ELSE LET i == CHOOSE c \in columns : TRUE
       IN  QuantityOf(encoded_columns[i]) + QuantitySum(columns \ {i})

\* The entries of a map, as pairs.
Pairs(products) == {<<k, products[k]>> : k \in DOMAIN products}

\* C20, as stated: parse_encoded_storage returns a products map that
\* holds exactly the entries of the form "code;integer" of the list, the
\* others being skipped, with total_products the number of its keys and
\* total_quantity the sum of its values.
C20_AsStated ==
  pc = "parsed"
    => /\ Pairs(parsed.value.products)
            = {<<CodeOf(encoded_columns[i]), QuantityOf(encoded_columns[i])>> :
                 i \in FormedColumns}
       /\ parsed.value.total_products
            = Cardinality(DOMAIN parsed.value.products)
       /\ parsed.value.total_quantity = SumValues(parsed.value.products)

\* C20, amended: the map's keys are the codes of the entries of the form
\* "code;integer", blanks around code and integer dropped; a code that
\* several such entries have maps to the quantity of the last of them; an
\* entry of another form adds nothing and raises nothing; total_products
\* is the number of keys, total_quantity the sum of the map's values, and
\* the location is handed back.
C20_LastEntryWins ==
  pc = "parsed"
    => /\ parsed.value.location = parsed.location
       /\ Pairs(parsed.value.products)
            = {<<CodeOf(encoded_columns[i]), QuantityOf(encoded_columns[i])>> :
                 i \in LastFormedColumns}
       /\ parsed.value.total_products = Cardinality(LastFormedColumns)
       /\ parsed.value.total_products
            = Cardinality(DOMAIN parsed.value.products)
       /\ parsed.value.total_quantity = QuantitySum(LastFormedColumns)

\* Two entries with one code: the map has the quantity of the second.
C20_Witness ==
  /\ pc = "parsed"
  /\ Cardinality(FormedColumns) = 2
  /\ Cardinality(LastFormedColumns) = 1
  /\ encoded_columns[1] = StrEntry(<<"A", ";", "5">>)
  /\ parsed.value.products = StoreProduct(<<>>, <<"A">>, 10)
  /\ parsed.value.total_quantity = 10

\* ------------------------------------------- claims about load_storage_data

\* The text holds the phrase.
Mentions(msg, phrase) == \E i \in 1..Len(msg) : msg[i] = phrase

\* The file of the request's storage type is not there.
FileAbsent(req) ==
  /\ req.storage_type \in DOMAIN file_mapping
  /\ \/ req.data_dir # "data"
     \/ req.files[file_mapping[req.storage_type]] = "absent"

\* C21: load_storage_data never raises; a storage type that is none of
\* class_based, dedicated, hybrid, random gives an error value that says
\* "Invalid storage type", before any file is touched; one of the four
\* whose file is not there gives an error value that says "File not
\* found".
C21_LoadErrors ==
  pc = "loaded"
    => /\ loaded.value.kind \in {"error", "loaded"}
       /\ storage_request.storage_type
            \notin {"class_based", "dedicated", "hybrid", "random"}
            => /\ loaded.value.kind = "error"
               /\ Mentions(loaded.value.error, "Invalid storage type")
               /\ loaded.value.accessed = <<>>
       /\ FileAbsent(storage_request)
            => /\ loaded.value.kind = "error"
               /\ Mentions(loaded.value.error, "File not found")

\* The file of the type asked for is missing among files that are there.
C21_Witness ==
  /\ pc = "loaded"
  /\ storage_request.storage_type = "class_based"
  /\ storage_request.data_dir = "data"
  /\ storage_request.files["Class_Based_Storage.csv"] = "absent"
  /\ storage_request.files["Random_Storage.csv"] = "garbage"
  /\ loaded.value.error
       = <<"File not found", ": ", "data", "/", "Class_Based_Storage.csv">>

\* ------------------------------------------------ claims about the history

\* C22: in every state of an invocation that has passed the guard on
\* available_tools, the first message of history is the system message and
\* the second the user message chat_with_tools was called with; no round
\* changes, moves or removes them.
C22_SeedStays ==
  /\ pc \in {"AwaitingModel", "Dispatching"} => Len(history) >= 2
  /\ history # <<>>
       => /\ history[1] =
               Message("system", create_system_prompt(available_tools))
          /\ history[2] = Message("user", chat_arg)
          /\ \A i \in 3..Len(history) : history[i].role # "system"

C22_Witness ==
  /\ pc = "done"
  /\ dispatches = 2
  /\ Len(history) = 6
  /\ history[1].role = "system"
  /\ history[2] = Message("user", <<"Hello">>)

\* C23: history is append-only: the messages sent to the completion client
\* in round 1 are the seed, and those sent in round n+1 are those sent in
\* round n followed by the assistant's reply of round n and then the tool
\* result of round n, all earlier messages as they were.
C23_AppendOnly ==
  [][ modelCalls' = modelCalls + 1
        => IF modelCalls = 0
           THEN sent' = << Message("system",
                                   create_system_prompt(available_tools)),
                           Message("user", chat_arg) >>
           ELSE sent' = sent \o << Message("assistant", assistant_msg),
                                   ToolResultMessage(dispatched.tool_result) >>
    ]_vars

\* The third round is sent the seed and two rounds of reply and result.
C23_Witness ==
  /\ modelCalls = 3
  /\ Len(sent) = 6
  /\ sent[3] = Message("assistant", CallText("S_bogus", NoArgs))
  /\ sent[5].role = "assistant"
  /\ sent[6].content = <<"Tool result: ", "12:00 UTC">>

\* ------------------------------------------------- claims about the rounds

\* The last reply of the completion client holds a call the extractor
\* detected.
CallDetected ==
  /\ modelCalls > 0
  /\ caught.at # "chat"
  /\ Truthy(extract_tool_call(assistant_msg))

\* The call is one the loop can dispatch: an object with a name and with
\* arguments.
CallDispatchable ==
  CallDetected /\ ~Subscript(extract_tool_call(assistant_msg)).raised

OwnToolResult(i, msg) ==
  \E o \in OutcomesOfCall(i) : msg = ToolResultMessage(call_tool(o))

\* C25: two invocations that run at a time on one client share no
\* conversation state: under every interleaving the history of each holds
\* its own user message, the replies given to it and the results of its
\* own dispatches, nothing of the other; and available_tools stays as
\* connect left it.
C25_NoSharedState ==
  /\ available_tools = RegisteredTools
  /\ \A i \in Invocations :
       LET h == calls[i].history IN
         /\ calls[i].pc \in {"AwaitingModel", "Dispatching"} => Len(h) >= 2
         /\ h # <<>>
              => /\ h[1].role = "system"
                 /\ h[2] = Message("user", UserMessageOfCall(i))
                 /\ Len(h) = 2 + 2 * calls[i].attempt
                 /\ \A k \in 3..Len(h) :
                      IF k % 2 = 1
                      THEN /\ h[k].role = "assistant"
                           /\ h[k].content \in RepliesOfCall(i)
                      ELSE OwnToolResult(i, h[k])
         /\ calls[i].outcome = "Answered"
              => calls[i].result \in RepliesOfCall(i)

\* Both invocations are in their second round at a time, each with the
\* result of its own first dispatch.
C25_Witness ==
  /\ calls[1].pc = "Dispatching"
  /\ calls[2].pc = "Dispatching"
  /\ Len(calls[1].history) = 4
  /\ Len(calls[2].history) = 4
  /\ calls[1].history[4].content = <<"Tool result: ", "12:00 UTC">>
  /\ calls[2].history[4].content = <<"Tool result: ", "Unknown tool">>

\* ---------------------------------------- claims about the ends of the loop

\* C26: when the budget is used up, MAX_LOOPS calls of the completion
\* client and MAX_LOOPS dispatches have been made and history has
\* 2 + 2 * MAX_LOOPS messages; the result of the last dispatch is in
\* history and was never sent to the completion client, whose last call got
\* history without its last two messages.
C26_LastResultUnsent ==
  pc = "done" /\ outcome = "Exhausted"
    => /\ result = ExhaustedMessage
       /\ modelCalls = MAX_LOOPS
       /\ dispatches = MAX_LOOPS
       /\ Len(history) = 2 + 2 * MAX_LOOPS
       /\ history[Len(history)] = ToolResultMessage(dispatched.tool_result)
       /\ Len(sent) = 2 * MAX_LOOPS
       /\ sent = SubSeq(history, 1, Len(history) - 2)

C26_Witness ==
  /\ pc = "done"
  /\ outcome = "Exhausted"
  /\ MAX_LOOPS = 2
  /\ Len(sent) = 4
  /\ history[6].content = <<"Tool result: ", "12:00 UTC">>

\* C27: an exception raised inside a round, by the completion client or
\* by the subscripts of a detected value that has no name or no arguments
\* or is no mapping, ends the invocation in that round: "Error: " and the
\* exception's text is returned, history is as it was when the round began,
\* and no call of the completion client or of a tool follows.
C27_ExceptionEnds ==
  /\ [](caught.at # "none"
          => /\ pc = "done"
             /\ outcome = "Error"
             /\ result = <<"Error: ">> \o caught.msg
             /\ history = sent
             /\ Len(history) = 2 + 2 * dispatches
             /\ modelCalls = dispatches + 1
             /\ modelCalls = attempt + 1)
  /\ [][ /\ \A e \in ChatErrors : ModelRaises(e) => caught'.msg = e
         /\ \A r \in Replies :
              ModelReplies(r) /\ Truthy(extract_tool_call(r))
                /\ Subscript(extract_tool_call(r)).raised
                => caught'.msg = Subscript(extract_tool_call(r)).msg
         /\ caught.at # "none"
              => /\ modelCalls' = modelCalls
                 /\ dispatches' = dispatches
                 /\ history' = history ]_vars

\* A call object without a name in round 2.
C27_Witness ==
  /\ caught.at = "tool_call"
  /\ modelCalls = 2
  /\ dispatches = 1
  /\ Len(history) = 4
  /\ result = <<"Error: ", "'name'">>

\* The values Python takes for false.
FalsyValues == {EmptyDict, None, Zero, Str(<<>>), EmptyList}

\* The last reply is a JSON object at its marker whose "tool_call" is one
\* of them.
FalsyCallReplied ==
  /\ modelCalls > 0
  /\ ValuesAtFirstMarker(assistant_msg) # {}
  /\ ValuesAtFirstMarker(assistant_msg) \subseteq FalsyValues

\* C28: a reply whose marker parses and whose "tool_call" is {}, null, 0,
\* "" or [] is a reply without a call: nothing is dispatched for it and its
\* text, marker and all, is returned as the answer.
C28_FalsyIsNoCall ==
  FalsyCallReplied
    => /\ pc = "done"
       /\ outcome = "Answered"
       /\ result = assistant_msg
       /\ HasMarker(result)
       /\ caught.at = "none"
       /\ dispatches = modelCalls - 1

\* {"tool_call":0} in round 2.
C28_Witness ==
  /\ FalsyCallReplied
  /\ modelCalls = 2
  /\ dispatches = 1
  /\ result = <<"{", "K_tool_call", "0", "}">>

\* C29: on a client whose available_tools is empty, chat_with_tools
\* returns "Error: No tools available" for every user message, and builds
\* no history, calls the completion client not once and dispatches no tool.
C29_NoToolsNoLoop ==
  available_tools = <<>> /\ pc \notin {"new", "connected"}
    => /\ pc = "done"
       /\ result = <<"Error: No tools available">>
       /\ history = <<>>
       /\ sent = <<>>
       /\ modelCalls = 0
       /\ dispatches = 0
       /\ attempt = 0

C29_Witness ==
  /\ pc = "done"
  /\ available_tools = <<>>
  /\ chat_arg = <<"What time is it in Tokyo?">>
  /\ result = <<"Error: No tools available">>
  /\ history = <<>>

\* C30: the extractor of the MCP client and the extractor of the example
\* return the same result, the same call object or None, for every text,
\* texts whose braces never balance after the marker included.
C30_AsStated ==
  pc = "compared" => extracted = example_extracted

\* Where the two extractors differ, the brace count never returns to zero,
\* a '}' follows the marker, the example returns None and the client does
\* not.
ExtractorsDifferOnlyUnbalanced ==
  pc = "compared" /\ extracted # example_extracted
    => /\ HasMarker(text)
       /\ MatchClose(text, FindMarker(text), 0) = 0
       /\ FindClose(text, FindMarker(text)) # 0
       /\ example_extracted = None
       /\ extracted # None

====
